---------------------------- MODULE Spec2Model ----------------------------
(***************************************************************************)
(* A model of C/common/reading_set.cpp: the ReadingSet container           *)
(* (construction from a JSON document, append, clear, removeAll,           *)
(* destruction), the JSONReading constructor with createDictDPV and        *)
(* escapeCharacter, and the microsecond part of convert_timestamp.         *)
(*                                                                         *)
(* Four specifications share the module:                                   *)
(*   SpecSet      the life of a few ReadingSet objects over one heap;      *)
(*   SpecDoc      ReadingSet::ReadingSet(json) applied to one document;    *)
(*   SpecReading  JSONReading::JSONReading applied to one JSON object;     *)
(*   SpecTs       convert_timestamp applied to one timestamp string.       *)
(***************************************************************************)
EXTENDS Integers, Sequences, FiniteSets, TLC

VARIABLES
    ndebug,       \* TRUE when the build compiles RAPIDJSON_ASSERT away
    state,        \* SpecSet: per set, "none" | "live" | "failed" | "destroyed"
    m_readings,   \* SpecSet: per set, the vector<Reading *> (heap indexes)
    m_count,      \* SpecSet: per set, the m_count field
    m_last_id,    \* SpecSet: per set, the m_last_id field
    heap,         \* SpecSet: the Reading objects allocated so far
    last,         \* SpecSet: the operation that produced the current state
    json,         \* SpecReading: the JSON object handed to JSONReading
    reading,      \* SpecReading: what the constructor left behind
    rd_pc,        \* SpecReading: "start" | "done"
    str,          \* SpecTs: the timestamp string, after the seconds field
    fractional,   \* SpecTs: the bytes of the local buffer char fractional[10]
    tv_usec,      \* SpecTs: tv->tv_usec
    ts_pc         \* SpecTs: "start" | "done"

vars == <<ndebug, state, m_readings, m_count, m_last_id, heap, last,
          json, reading, rd_pc, str, fractional, tv_usec, ts_pc>>

setVars == <<state, m_readings, m_count, m_last_id, heap, last>>
rdVars  == <<json, reading, rd_pc>>
tsVars  == <<str, fractional, tv_usec, ts_pc>>

-----------------------------------------------------------------------------
(* Bounds of the model *)

MaxFracLen == 7     \* digits after the decimal point of a timestamp
MaxStrLen  == 3     \* characters of a quarantined string
MaxElems   == 2     \* elements of an array member of "reading"
MaxMembers == 2     \* members of the "reading" object
MaxSets    == 2     \* ReadingSet objects
MaxArr     == 2     \* elements of the "rows" / "readings" array
MaxId      == 2     \* reading identifiers are 1..MaxId
MaxCount   == 2     \* the document's "count" is 0..MaxCount
MaxRows    == 1     \* rows of a document given to a set that is later appended
MaxHeap    == 2     \* Reading objects allocated in one run
MaxTally   == 2     \* append is taken while m_count stays within this

SeqsUpTo(S, n) == UNION {[1..k -> S] : k \in 0..n}

-----------------------------------------------------------------------------
(* convert_timestamp: the microseconds *)

\* What sscanf's %[0-9] accepts.
Digits == 0..9

\* The digits drawn for the fractional part of an input.
FracDigits == {0, 5, 9}

\* The text that follows "YYYY-MM-DD HH:MM:SS": nothing, or a '.' and digits.
TsStrings ==
    {[dot |-> FALSE, frac |-> <<>>]}
    \cup [dot : {TRUE}, frac : SeqsUpTo(FracDigits, MaxFracLen) \cup {<<1, 2, 3, 4, 5, 6, 7>>}]

\* What the never-initialised buffer may hold when the function is entered:
\* stack bytes, here the digits an earlier call left or none.
StackGarbage == {<<>>, <<5>>, <<1, 2, 3, 4, 5, 6>>, <<9, 9, 9, 9, 9, 9, 9>>}

\* sscanf(str, "%*d-%*d-%*d %*d:%*d:%*d.%[0-9]*", fractional): the buffer is
\* written only when a '.' and at least one digit follow the seconds.
sscanf(s, buf) == IF s.dot /\ Len(s.frac) > 0 THEN s.frac ELSE buf

RECURSIVE strcat_zeros(_, _)
\* while (multiplier--) strcat(fractional, "0");
strcat_zeros(buf, multiplier) ==
    IF multiplier = 0 THEN buf ELSE strcat_zeros(Append(buf, 0), multiplier - 1)

RECURSIVE atol(_)
atol(buf) ==
    IF buf = <<>> THEN 0
    ELSE 10 * atol(SubSeq(buf, 1, Len(buf) - 1)) + buf[Len(buf)]

\* int multiplier = 6 - (int)strlen(fractional); if (multiplier < 0) multiplier = 0;
padded(buf) ==
    LET m == 6 - Len(buf) IN strcat_zeros(buf, IF m < 0 THEN 0 ELSE m)

convert_timestamp ==
    /\ ts_pc = "start"
    /\ LET buf == sscanf(str, fractional) IN
         /\ fractional' = padded(buf)
         /\ tv_usec' = atol(padded(buf))
    /\ ts_pc' = "done"
    /\ UNCHANGED <<str, ndebug>>
    /\ UNCHANGED setVars
    /\ UNCHANGED rdVars

-----------------------------------------------------------------------------
(* JSON values, as the rapidjson parser hands them over *)

\* A 64-bit word is four 16-bit limbs, least significant first.
Limb == 256 * 256
Half == Limb \div 2
Top  == Limb - 1

NoNum == [k |-> "none", limbs |-> <<0, 0, 0, 0>>, d |-> 0]

\* An integer literal of the signed 64-bit range, in two's complement.
JInt(l) == [k |-> "int", limbs |-> l, d |-> 0]
\* An integer literal of 2^63 .. 2^64-1, which only fits uint64_t.
JBig(l) == [k |-> "uint64", limbs |-> l, d |-> 0]
\* A literal with a fraction or an exponent; d names the double (in tenths).
JDbl(d) == [k |-> "double", limbs |-> <<0, 0, 0, 0>>, d |-> d]

JNull      == [t |-> "null",   s |-> <<>>, n |-> NoNum, m |-> <<>>]
JBool      == [t |-> "bool",   s |-> <<>>, n |-> NoNum, m |-> <<>>]
JStr(s)    == [t |-> "string", s |-> s,    n |-> NoNum, m |-> <<>>]
JNum(n)    == [t |-> "number", s |-> <<>>, n |-> n,     m |-> <<>>]
\* m holds the elements of an array and the members of an object, in document
\* order, as [name, val]; an array element has the name "".
JArr(m)    == [t |-> "array",  s |-> <<>>, n |-> NoNum, m |-> m]
JObj(m)    == [t |-> "object", s |-> <<>>, n |-> NoNum, m |-> m]
Mem(nm, v) == [name |-> nm, val |-> v]

\* rapidjson's number flags, set by the parser from the literal.
IsInt(n) ==
    /\ n.k = "int"
    /\ \/ n.limbs[2] < Half /\ n.limbs[3] = 0 /\ n.limbs[4] = 0
       \/ n.limbs[2] >= Half /\ n.limbs[3] = Top /\ n.limbs[4] = Top
IsUint(n)   == n.k = "int" /\ n.limbs[3] = 0 /\ n.limbs[4] = 0
IsInt64(n)  == n.k = "int"
IsUint64(n) == n.k = "uint64" \/ (n.k = "int" /\ n.limbs[4] < Half)
IsDouble(n) == n.k = "double"

\* GetInt() returns the low 32 bits of the stored word as an int; the cast to
\* long sign-extends them.
GetInt(n) ==
    LET sx == IF n.limbs[2] >= Half THEN Top ELSE 0
    IN  <<n.limbs[1], n.limbs[2], sx, sx>>

\* GetInt64() returns the stored word as an int64_t.
GetInt64(n) == n.limbs

-----------------------------------------------------------------------------
(* DatapointValue and Datapoint *)

NoLong == <<0, 0, 0, 0>>

DpvString(s) == [tag |-> "string", s |-> s,    i |-> NoLong, d |-> 0, kids |-> <<>>]
DpvLong(i)   == [tag |-> "int",    s |-> <<>>, i |-> i,      d |-> 0, kids |-> <<>>]
DpvDouble(d) == [tag |-> "float",  s |-> <<>>, i |-> NoLong, d |-> d, kids |-> <<>>]
\* DatapointValue(vector<Datapoint*>*, bool isDict)
DpvNested(kids, isDict) ==
    [tag |-> IF isDict THEN "dict" ELSE "list",
     s |-> <<>>, i |-> NoLong, d |-> 0, kids |-> kids]
\* The null pointer createDictDPV returns, and what a copy made through it holds.
DpvNull    == [tag |-> "NULL",    s |-> <<>>, i |-> NoLong, d |-> 0, kids |-> <<>>]
DpvGarbage == [tag |-> "garbage", s |-> <<>>, i |-> NoLong, d |-> 0, kids |-> <<>>]

Datapoint(nm, dv) == [name |-> nm, val |-> dv]

-----------------------------------------------------------------------------
(* JSONReading::JSONReading, createDictDPV, escapeCharacter *)

ASSET_NAME_INVALID_READING == "error_invalid_reading"

JSON_characters_to_be_escaped == <<"\\", "\"">>

\* How a step of the constructor ends: st is "ok", "error" (a
\* ReadingSetException is thrown), "abort" (a RAPIDJSON_ASSERT fails) or
\* "crash" (a null pointer is dereferenced and the process is killed).
Res(st, err, dps) == [st |-> st, err |-> err, dps |-> dps]

RECURSIVE escapeCharacter(_, _)
\* boost::replace_all(stringToEvaluate, pattern, "\\" + pattern), for the
\* one-character patterns the file uses.
escapeCharacter(stringToEvaluate, pattern) ==
    IF stringToEvaluate = <<>> THEN <<>>
    ELSE (IF Head(stringToEvaluate) = pattern
          THEN <<"\\", pattern>>
          ELSE <<Head(stringToEvaluate)>>)
         \o escapeCharacter(Tail(stringToEvaluate), pattern)

RECURSIVE escapeEach(_, _)
\* for (const string &item : JSON_characters_to_be_escaped) escapeCharacter(tmp_reading1, item);
escapeEach(tmp_reading1, items) ==
    IF items = <<>> THEN tmp_reading1
    ELSE escapeEach(escapeCharacter(tmp_reading1, Head(items)), Tail(items))

\* if (IsInt() || IsUint()) (long) GetInt(); else (long) GetInt64();
\* GetInt() asserts IsInt() and GetInt64() asserts IsInt64().
LongOf(n, nd) ==
    IF IsInt(n) \/ IsUint(n)
    THEN IF ~nd /\ ~IsInt(n)
         THEN Res("abort", "", <<>>)
         ELSE Res("ok", "", <<DpvLong(GetInt(n))>>)
    ELSE IF ~nd /\ ~IsInt64(n)
         THEN Res("abort", "", <<>>)
         ELSE Res("ok", "", <<DpvLong(GetInt64(n))>>)

\* The number dispatch of the "value" shortcut and of a member of "reading":
\* the datapoint is named nm.
NumberDatapoint(nm, n, nd) ==
    IF IsInt(n) \/ IsUint(n) \/ IsInt64(n) \/ IsUint64(n)
    THEN LET r == LongOf(n, nd)
         IN  IF r.st = "ok" THEN Res("ok", "", <<Datapoint(nm, r.dps[1])>>) ELSE r
    ELSE IF IsDouble(n)
    THEN Res("ok", "", <<Datapoint(nm, DpvDouble(n.d))>>)
    ELSE Res("error", "Cannot parse the numeric type", <<>>)

\* The value createDictDPV builds for one member (NULL when it builds none),
\* and whether GetInt()'s assertion fails on the way.
DictMemberValue(v) ==
    IF v.t = "string" THEN DpvString(v.s)
    ELSE IF v.t = "number" /\ IsDouble(v.n) THEN DpvDouble(v.n.d)
    ELSE IF v.t = "number" THEN DpvLong(GetInt(v.n))
    ELSE DpvNull

DictMemberAsserts(v, nd) ==
    v.t = "number" /\ ~IsDouble(v.n) /\ ~IsInt(v.n) /\ ~nd

RECURSIVE DictMembers(_, _, _)
\* The member loop of createDictDPV; dpVec is the vector built so far.
DictMembers(members, nd, dpVec) ==
    IF members = <<>> THEN Res("ok", "", dpVec)
    ELSE LET itr == Head(members)
             dpv == DictMemberValue(itr.val)
         IN  IF DictMemberAsserts(itr.val, nd) THEN Res("abort", "", <<>>)
             ELSE DictMembers(Tail(members), nd,
                      IF dpv # DpvNull
                      THEN Append(dpVec, Datapoint(itr.name, dpv))
                      ELSE dpVec)

\* DatapointValue* createDictDPV(const Value &obj): dps holds the value
\* returned, DpvNull for the null pointer.
createDictDPV(obj, nd) ==
    LET r == DictMembers(obj.m, nd, <<>>)
    IN  IF r.st # "ok" THEN r
        ELSE IF Len(r.dps) > 0
        THEN Res("ok", "", <<DpvNested(r.dps, TRUE)>>)
        ELSE Res("ok", "", <<DpvNull>>)

\* What the builds running the code can do at a dereference of a null
\* DatapointValue*: kill the process, or copy whatever lies at address 0.
NullDerefOutcomes == {"crash", "garbage"}

RECURSIVE ArrayElements(_, _, _, _)
\* case kArrayType: the loop over m.value.GetArray(); deref is the outcome
\* of "*dpv" when createDictDPV returned NULL.
ArrayElements(elems, nd, deref, dpVec) ==
    IF elems = <<>> THEN Res("ok", "", dpVec)
    ELSE LET elem == Head(elems).val IN
         IF elem.t # "object"
         THEN Res("error", "Expected reading to be an object", <<>>)
         ELSE LET r == createDictDPV(elem, nd) IN
              IF r.st # "ok" THEN r
              ELSE IF r.dps[1] = DpvNull /\ deref = "crash"
              THEN Res("crash", "", <<>>)
              ELSE ArrayElements(Tail(elems), nd, deref,
                       Append(dpVec,
                              Datapoint("unnamed_list_elem#",
                                        IF r.dps[1] = DpvNull
                                        THEN DpvGarbage ELSE r.dps[1])))

\* case kArrayType, whole: one Datapoint named "value" holding the list, or
\* the exception "Cannot parse the array type with name".
ArrayMember(v, nd, deref) ==
    LET r == ArrayElements(v.m, nd, deref, <<>>)
    IN  IF r.st # "ok" THEN r
        ELSE IF Len(r.dps) > 0
        THEN Res("ok", "", <<Datapoint("value", DpvNested(r.dps, FALSE))>>)
        ELSE Res("error", "Cannot parse the array type with name", <<>>)

\* switch (m.value.GetType()) for one member of the "reading" object.
ReadingMember(m, nd, deref) ==
    IF m.val.t = "string" THEN Res("ok", "", <<Datapoint(m.name, DpvString(m.val.s))>>)
    ELSE IF m.val.t = "number" THEN NumberDatapoint(m.name, m.val.n, nd)
    ELSE IF m.val.t = "array" THEN ArrayMember(m.val, nd, deref)
    ELSE Res("error", "Cannot handle unsupported type", <<>>)

RECURSIVE ReadingMembers(_, _, _, _)
\* for (auto &m : json["reading"].GetObject()): dps are the datapoints added
\* so far; the first member that throws ends the loop.
ReadingMembers(members, nd, deref, dps) ==
    IF members = <<>> THEN Res("ok", "", dps)
    ELSE LET r == ReadingMember(Head(members), nd, deref)
         IN  IF r.st # "ok" THEN r
             ELSE ReadingMembers(Tail(members), nd, deref, dps \o r.dps)

\* The else branch of json["reading"].IsObject(): the datapoint, if any, is
\* named with the asset name.
InvalidReading(rd, m_asset, nd) ==
    IF rd.t = "string"
    THEN Res("ok", "",
             <<Datapoint(m_asset, DpvString(escapeEach(rd.s, JSON_characters_to_be_escaped)))>>)
    ELSE IF rd.t = "number"
            /\ (IsInt(rd.n) \/ IsUint(rd.n) \/ IsInt64(rd.n) \/ IsUint64(rd.n))
    THEN LET r == LongOf(rd.n, nd)
         IN  IF r.st = "ok" THEN Res("ok", "", <<Datapoint(m_asset, r.dps[1])>>) ELSE r
    ELSE IF rd.t = "number" /\ IsDouble(rd.n)
    THEN Res("ok", "", <<Datapoint(m_asset, DpvDouble(rd.n.d))>>)
    ELSE Res("ok", "", <<>>)

\* A JSON object of the rows/readings array. asset_code, user_ts and read_key
\* are present and are strings; the two timestamps go through
\* convert_timestamp, which SpecTs covers.
JReading(has_id, id, asset, has_value, value, has_reading, rd) ==
    [has_id |-> has_id, id |-> id, asset_code |-> asset,
     has_value |-> has_value, value |-> value,
     has_reading |-> has_reading, reading |-> rd]

\* A Reading that was not built.
NoReading(st, err) ==
    [status |-> st, err |-> err, m_asset |-> "", m_has_id |-> FALSE, m_id |-> 0,
     datapoints |-> <<>>]

\* JSONReading::JSONReading(const Value& json). nd: the build has NDEBUG;
\* deref: what "*dpv" does on a null pointer; gid: the value the never-set
\* m_id holds when the object carries no "id".
JSONReading(j, nd, deref, gid) ==
    LET m_id == IF j.has_id THEN j.id ELSE gid
        built(r, asset) ==
            IF r.st # "ok" THEN NoReading(r.st, r.err)
            ELSE [status |-> "ok", err |-> "", m_asset |-> asset,
                  m_has_id |-> j.has_id, m_id |-> m_id, datapoints |-> r.dps]
    IN  IF j.has_value /\ j.value.t = "number"
        THEN built(NumberDatapoint("value", j.value.n, nd), j.asset_code)
        \* json["reading"] on an object that has no such member: operator[]
        \* asserts, and without assertions returns a null value.
        ELSE IF ~j.has_reading /\ ~nd
        THEN NoReading("abort", "")
        ELSE LET rd == IF j.has_reading THEN j.reading ELSE JNull IN
             IF rd.t = "object"
             THEN built(ReadingMembers(rd.m, nd, deref, <<>>), j.asset_code)
             ELSE built(InvalidReading(rd, j.asset_code, nd),
                        ASSET_NAME_INVALID_READING \o "_" \o j.asset_code)

-----------------------------------------------------------------------------
(* The JSON objects SpecReading hands to the constructor *)

\* Integer literals of the signed 64-bit range: 0, 1, 42, -1, 2^31-1, 2^31,
\* 3000000000, 2^32-1, 2^32, 5000000000, 2^63-1, -2^31, -2^31-1, -2^63.
IntLiterals ==
    { <<0, 0, 0, 0>>, <<1, 0, 0, 0>>, <<42, 0, 0, 0>>, <<Top, Top, Top, Top>>,
      <<Top, Half - 1, 0, 0>>, <<0, Half, 0, 0>>, <<24064, 45776, 0, 0>>,
      <<Top, Top, 0, 0>>, <<0, 0, 1, 0>>, <<61952, 10757, 1, 0>>,
      <<Top, Top, Top, Half - 1>>, <<0, Half, Top, Top>>,
      <<Top, Half - 1, Top, Top>>, <<0, 0, 0, Half>> }

\* Integer literals above the signed range: 2^63 and 2^64-1.
BigLiterals == { <<0, 0, 0, Half>>, <<Top, Top, Top, Top>> }

\* 1.5 and 42.0
DoubleLiterals == {15, 420}

JNumbers ==
    {JNum(JInt(l)) : l \in IntLiterals} \cup {JNum(JBig(l)) : l \in BigLiterals}
        \cup {JNum(JDbl(d)) : d \in DoubleLiterals}

Chars == {"a", "\\", "\""}

JStrings == {JStr(s) : s \in SeqsUpTo(Chars, MaxStrLen) \cup {<<"o", "o", "p", "s">>}}

One  == JNum(JInt(<<1, 0, 0, 0>>))
Wide == JNum(JInt(<<61952, 10757, 1, 0>>))

\* The objects met as elements of an array member: {}, {"a": v}, and one
\* with a member createDictDPV keeps next to one it drops.
ElemObjects ==
    {JObj(<<>>), JObj(<<Mem("a", One), Mem("b", JArr(<<>>))>>)}
        \cup {JObj(<<Mem("a", v)>>) :
                v \in {JStr(<<"a">>), One, Wide, JNum(JDbl(15)), JObj(<<>>)}}

ArrayValues ==
    {JArr([i \in DOMAIN es |-> Mem("", es[i])]) :
        es \in SeqsUpTo(ElemObjects \cup {One}, MaxElems)}

MemberName(i) == IF i = 1 THEN "x" ELSE IF i = 2 THEN "y" ELSE "z"

MemberValues ==
    {JStr(<<"a">>), JNull, JBool, JObj(<<>>), One, Wide,
     JNum(JInt(<<24064, 45776, 0, 0>>)), JNum(JBig(<<0, 0, 0, Half>>)),
     JNum(JDbl(15))} \cup ArrayValues

ReadingObjects ==
    {JObj([i \in DOMAIN vs |-> Mem(MemberName(i), vs[i])]) :
        vs \in SeqsUpTo(MemberValues, MaxMembers)}

\* Everything the "reading" field may hold.
ReadingValues ==
    ReadingObjects \cup JStrings \cup JNumbers \cup {JNull, JBool} \cup ArrayValues

ReadingInputs ==
    {JReading(h, 1, "temp", TRUE, v, r # JNull, r) :
        h \in BOOLEAN, v \in JNumbers, r \in {JNull, JStr(<<"a">>)}}
    \cup
    {JReading(h, 1, "temp", v # JNull, v, TRUE, r) :
        h \in BOOLEAN, v \in {JNull, JStr(<<"a">>)}, r \in ReadingValues}
    \cup
    {JReading(h, 1, "temp", FALSE, JNull, FALSE, JNull) : h \in BOOLEAN}

NotBuilt == NoReading("none", "")

\* new JSONReading(json)
BuildReading ==
    /\ rd_pc = "start"
    /\ \E deref \in NullDerefOutcomes, gid \in 0..MaxId :
          reading' = JSONReading(json, ndebug, deref, gid)
    /\ rd_pc' = "done"
    /\ UNCHANGED <<json, ndebug>>
    /\ UNCHANGED setVars
    /\ UNCHANGED tsVars

-----------------------------------------------------------------------------
(* ReadingSet *)

Sets == 1..MaxSets

\* An element of the rows/readings array: a reading object, or something else.
Elem(is_object, j) == [is_object |-> is_object, j |-> j]

NoObject == JReading(FALSE, 0, "", FALSE, JNull, FALSE, JNull)

\* {"id": i, "value": 42}
Row(i) ==
    Elem(TRUE, JReading(TRUE, i, "temp", TRUE, JNum(JInt(<<42, 0, 0, 0>>)), FALSE, JNull))

\* {"id": 1, "reading": {"x": null}}: a member of an unsupported type
BadRow ==
    Elem(TRUE, JReading(TRUE, 1, "temp", FALSE, JNull, TRUE, JObj(<<Mem("x", JNull)>>)))

\* The elements of the documents of SpecDoc: {"id": i, "value": 42};
\* {"reading": "a"}, quarantined and without an id; BadRow;
\* {"id": 1, "reading": {"x": [{}]}}, whose array element builds no value;
\* {"id": 1, "value": 3000000000}; and the number 7.
DocElems ==
    {Row(i) : i \in 1..MaxId}
    \cup {Elem(TRUE, JReading(FALSE, 0, "temp", FALSE, JNull, TRUE, JStr(<<"a">>))),
          BadRow,
          Elem(TRUE, JReading(TRUE, 1, "temp", FALSE, JNull, TRUE,
                              JObj(<<Mem("x", JArr(<<Mem("", JObj(<<>>))>>))>>))),
          Elem(TRUE, JReading(TRUE, 1, "temp", TRUE,
                              JNum(JInt(<<24064, 45776, 0, 0>>)), FALSE, JNull)),
          Elem(FALSE, NoObject)}

\* The value under "rows" or "readings".
ArrayOf(elems) == [is_array |-> TRUE, elems |-> elems]
NotArray       == [is_array |-> FALSE, elems |-> <<>>]
DocValues      == {ArrayOf(es) : es \in SeqsUpTo(DocElems, MaxArr)} \cup {NotArray}

Doc(parses, has_rows, rows, has_readings, readings, has_count, count) ==
    [parses |-> parses, has_rows |-> has_rows, rows |-> rows,
     has_readings |-> has_readings, readings |-> readings,
     has_count |-> has_count, count |-> count]

NoDoc == Doc(FALSE, FALSE, NotArray, FALSE, NotArray, FALSE, 0)

\* The documents handed to the constructor: text that does not parse, an
\* object with neither array, and objects with "rows", "readings" or both,
\* with or without a "count".
Docs ==
    {NoDoc}
    \cup {Doc(TRUE, FALSE, NotArray, FALSE, NotArray, c > 0, c) : c \in 0..1}
    \cup {Doc(TRUE, TRUE, v, FALSE, NotArray, FALSE, 0) : v \in DocValues}
    \cup {Doc(TRUE, TRUE, v, FALSE, NotArray, TRUE, c) : v \in DocValues, c \in 0..MaxCount}
    \cup {Doc(TRUE, FALSE, NotArray, TRUE, v, FALSE, 0) : v \in DocValues}
    \cup {Doc(TRUE, FALSE, NotArray, TRUE, v, TRUE, MaxCount) : v \in DocValues}
    \cup {Doc(TRUE, TRUE, v, TRUE, ArrayOf(<<>>), FALSE, 0) : v \in DocValues}
    \cup {Doc(TRUE, TRUE, v, TRUE, NotArray, TRUE, c) : v \in DocValues, c \in {0, MaxCount}}

\* The documents of SpecSet: k rows {"id": 1, "value": 42} under "rows"
\* without a count, under "rows" with a count, and under "readings"; and one
\* document whose second row does not build.
SetDocs ==
    LET rows(k) == ArrayOf([i \in 1..k |-> Row(1)]) IN
    {Doc(TRUE, TRUE, rows(k), FALSE, NotArray, FALSE, 0) : k \in 0..MaxRows}
    \cup {Doc(TRUE, TRUE, rows(k), FALSE, NotArray, TRUE, c) : k \in 0..MaxRows, c \in 0..MaxRows}
    \cup {Doc(TRUE, FALSE, NotArray, TRUE, rows(k), FALSE, 0) : k \in 0..MaxRows}
    \cup {Doc(TRUE, FALSE, NotArray, TRUE, ArrayOf(<<Row(1), BadRow>>), FALSE, 0)}

\* const Value& readings = docHasRows ? doc["rows"] : doc["readings"];
Located(doc) == IF doc.has_rows THEN doc.rows ELSE doc.readings

\* How the row loop ends: built are the JSONReading objects pushed so far,
\* id the last value of the local "id".
Rows(st, err, built, id) == [st |-> st, err |-> err, built |-> built, id |-> id]

\* Mutant of NextId: only the first reading's id is taken.
NextIdFirst(id, value) == IF id = 0 THEN value.m_id ELSE id

\* id = value->getId();
NextId(id, value) == value.m_id

RECURSIVE RowsLoop(_, _, _, _, _, _)
RECURSIVE RowsNext(_, _, _, _, _, _, _)

\* Mutant of RowsNext: an element that does not build is skipped.
RowsNextSkipping(rest, nd, deref, gid, built, id, value) ==
    IF value.status # "ok"
    THEN RowsLoop(rest, nd, deref, gid, built, id)
    ELSE RowsLoop(rest, nd, deref, gid, Append(built, value), NextId(id, value))

\* The rest of one round of the row loop, once new JSONReading(reading) has
\* returned or thrown: value is pushed and the loop goes on, or the
\* exception leaves the constructor.
RowsNext(rest, nd, deref, gid, built, id, value) ==
    IF value.status # "ok"
    THEN Rows(value.status, value.err, built, id)
    ELSE RowsLoop(rest, nd, deref, gid, Append(built, value), NextId(id, value))

\* for (auto& reading : readings.GetArray()) { ... }
RowsLoop(elems, nd, deref, gid, built, id) ==
    IF elems = <<>> THEN Rows("ok", "", built, id)
    ELSE IF ~Head(elems).is_object
    THEN Rows("error", "Expected reading to be an object", built, id)
    ELSE RowsNext(Tail(elems), nd, deref, gid, built, id,
                  JSONReading(Head(elems).j, nd, deref, gid))

\* What ReadingSet::ReadingSet(const std::string& json) does: st "ok" is a
\* constructed set with its fields; otherwise no object comes to exist, and
\* built are the readings allocated before the throw (never released).
Built(st, err, built, count, last_id) ==
    [st |-> st, err |-> err, built |-> built, m_count |-> count, m_last_id |-> last_id]

\* After the row loop (r is how it ended): m_last_id = id, and with
\* "readings" m_count = rows, the number of rounds completed; otherwise
\* m_count keeps what it was given before the loop.
AfterRows(doc, r) ==
    IF r.st # "ok" THEN Built(r.st, r.err, r.built, 0, 0)
    ELSE Built("ok", "", r.built,
               IF doc.has_readings THEN Len(r.built)
               ELSE IF doc.has_count /\ doc.has_rows THEN doc.count ELSE 0,
               r.id)

ReadingSetFromJson(doc, nd, deref, gid) ==
    IF ~doc.parses
    THEN Built("error", "Unable to parse results json document", <<>>, 0, 0)
    ELSE IF ~doc.has_rows /\ ~doc.has_readings
    THEN Built("error", "Missing readings or rows array", <<>>, 0, 0)
    ELSE IF doc.has_count /\ doc.has_rows /\ doc.count = 0
    THEN Built("ok", "", <<>>, 0, 0)
    ELSE IF ~Located(doc).is_array
    THEN Built("error", "Expected array of rows in result set", <<>>, 0, 0)
    ELSE AfterRows(doc, RowsLoop(Located(doc).elems, nd, deref, gid, <<>>, 0))

\* A Reading on the heap: the object, the set whose constructor allocated it
\* and how many times it was deleted.
Cell(rd, maker) == [rd |-> rd, maker |-> maker, freed |-> 0]

\* delete *it, for every pointer of the vector
DeleteAll(h, ptrs) ==
    [r \in DOMAIN h |->
        LET n == Cardinality({i \in DOMAIN ptrs : ptrs[i] = r})
        IN  [h[r] EXCEPT !.freed = @ + n]]

\* Mutant of clear: the vector keeps its pointers (a copy, not a move).
clear_keeps(ptrs) == ptrs

\* void ReadingSet::clear(): m_readings.clear()
clear(ptrs) == <<>>

\* void ReadingSet::append(const vector<Reading *>& readings): the new
\* m_readings and m_count of this set.
append_vector(mine, count, readings) ==
    [m_readings |-> mine \o readings, m_count |-> count + Len(readings)]

\* What last records: a construction from a document (the set, the document
\* and how it ended), or any other call and how it ended.
Op(op, a, doc, result) == [op |-> op, a |-> a, doc |-> doc, result |-> result]
Call(result) == Op("call", 0, NoDoc, result)

\* An assertion failure or a crash ends the process.
Running == last.result \notin {"abort", "crash"}

\* s = new ReadingSet(json), for a document of D. When the constructor
\* throws, no object comes to exist ("failed") and the readings it had
\* allocated stay on the heap.
Construct(s, D) ==
    /\ Running
    /\ state[s] = "none"
    /\ \E doc \in D, deref \in NullDerefOutcomes, gid \in 0..MaxId :
         \E r \in {ReadingSetFromJson(doc, ndebug, deref, gid)}, n \in {Len(heap)} :
             /\ n + Len(Located(doc).elems) <= MaxHeap
             /\ heap' = heap \o [i \in DOMAIN r.built |-> Cell(r.built[i], s)]
             /\ last' = Op("construct", s, doc, r.st)
             /\ IF r.st = "ok"
                THEN /\ state' = [state EXCEPT ![s] = "live"]
                     /\ m_readings' = [m_readings EXCEPT ![s] = [i \in DOMAIN r.built |-> n + i]]
                     /\ m_count' = [m_count EXCEPT ![s] = r.m_count]
                     /\ m_last_id' = [m_last_id EXCEPT ![s] = r.m_last_id]
                ELSE /\ state' = [state EXCEPT ![s] = "failed"]
                     /\ UNCHANGED <<m_readings, m_count, m_last_id>>
    /\ UNCHANGED ndebug
    /\ UNCHANGED rdVars
    /\ UNCHANGED tsVars

\* new ReadingSet(): m_count is 0 and m_last_id is left unset.
ConstructEmpty(s) ==
    /\ Running
    /\ state[s] = "none"
    /\ state' = [state EXCEPT ![s] = "live"]
    /\ m_readings' = [m_readings EXCEPT ![s] = <<>>]
    /\ m_count' = [m_count EXCEPT ![s] = 0]
    /\ \E garbage \in {0, MaxId} : m_last_id' = [m_last_id EXCEPT ![s] = garbage]
    /\ last' = Call("ok")
    /\ UNCHANGED <<heap, ndebug>>
    /\ UNCHANGED rdVars
    /\ UNCHANGED tsVars

\* a.append(b), through either overload taking a reading set. Appending a
\* set that holds readings to itself pushes into the vector the loop walks:
\* the iterators dangle and the loop does not end.
AppendSet(a, b) ==
    /\ Running
    /\ state[a] = "live" /\ state[b] = "live"
    /\ m_count[a] + Len(m_readings[b]) <= MaxTally
    /\ IF a = b /\ m_readings[a] # <<>>
       THEN /\ last' = Call("crash")
            /\ UNCHANGED <<m_readings, m_count>>
       ELSE LET r == append_vector(m_readings[a], m_count[a], m_readings[b]) IN
            /\ m_readings' = [[m_readings EXCEPT ![a] = r.m_readings]
                                 EXCEPT ![b] = clear(@)]
            /\ m_count' = [m_count EXCEPT ![a] = r.m_count]
            /\ last' = Call("ok")
    /\ UNCHANGED <<state, m_last_id, heap, ndebug>>
    /\ UNCHANGED rdVars
    /\ UNCHANGED tsVars

\* s.clear()
Clear(s) ==
    /\ Running
    /\ state[s] = "live"
    /\ m_readings' = [m_readings EXCEPT ![s] = clear(@)]
    /\ last' = Call("ok")
    /\ UNCHANGED <<state, m_count, m_last_id, heap, ndebug>>
    /\ UNCHANGED rdVars
    /\ UNCHANGED tsVars

\* s.removeAll()
RemoveAll(s) ==
    /\ Running
    /\ state[s] = "live"
    /\ heap' = DeleteAll(heap, m_readings[s])
    /\ m_readings' = [m_readings EXCEPT ![s] = <<>>]
    /\ last' = Call("ok")
    /\ UNCHANGED <<state, m_count, m_last_id, ndebug>>
    /\ UNCHANGED rdVars
    /\ UNCHANGED tsVars

\* delete s
Destroy(s) ==
    /\ Running
    /\ state[s] = "live"
    /\ heap' = DeleteAll(heap, m_readings[s])
    /\ state' = [state EXCEPT ![s] = "destroyed"]
    \* the object and its fields are gone
    /\ m_readings' = [m_readings EXCEPT ![s] = <<>>]
    /\ m_count' = [m_count EXCEPT ![s] = 0]
    /\ m_last_id' = [m_last_id EXCEPT ![s] = 0]
    /\ last' = Call("ok")
    /\ UNCHANGED ndebug
    /\ UNCHANGED rdVars
    /\ UNCHANGED tsVars

-----------------------------------------------------------------------------
(* Specifications *)

\* The variables a specification does not use stay at these values.
IdleSet ==
    /\ state = <<>> /\ m_readings = <<>> /\ m_count = <<>> /\ m_last_id = <<>>
    /\ heap = <<>> /\ last = <<>>
IdleReading == json = JNull /\ reading = NotBuilt /\ rd_pc = "idle"
IdleTs == str = <<>> /\ fractional = <<>> /\ tv_usec = 0 /\ ts_pc = "idle"

InitTs ==
    /\ ndebug = TRUE
    /\ str \in TsStrings
    /\ fractional \in StackGarbage
    /\ tv_usec = 0
    /\ ts_pc = "start"
    /\ IdleSet /\ IdleReading

NextTs == convert_timestamp

SpecTs == InitTs /\ [][NextTs]_vars

InitReading ==
    /\ ndebug \in BOOLEAN
    /\ json \in ReadingInputs
    /\ reading = NotBuilt
    /\ rd_pc = "start"
    /\ IdleSet /\ IdleTs

NextReading == BuildReading

SpecReading == InitReading /\ [][NextReading]_vars

InitSets ==
    /\ state = [s \in Sets |-> "none"]
    /\ m_readings = [s \in Sets |-> <<>>]
    /\ m_count = [s \in Sets |-> 0]
    /\ m_last_id = [s \in Sets |-> 0]
    /\ heap = <<>>
    /\ last = Call("ok")
    /\ IdleReading /\ IdleTs

InitDoc == ndebug \in BOOLEAN /\ InitSets

\* No document of SetDocs reaches a RAPIDJSON_ASSERT, so the two builds
\* behave alike here.
InitSet == ndebug = TRUE /\ InitSets

NextDoc == Construct(1, Docs)

SpecDoc == InitDoc /\ [][NextDoc]_vars

NextSet ==
    \/ \E s \in Sets : Construct(s, SetDocs)
    \/ \E s \in Sets : ConstructEmpty(s)
    \/ \E a \in Sets, b \in Sets : AppendSet(a, b)
    \/ \E s \in Sets : Clear(s)
    \/ \E s \in Sets : RemoveAll(s)
    \/ \E s \in Sets : Destroy(s)

SpecSet == InitSet /\ [][NextSet]_vars

-----------------------------------------------------------------------------
(* Properties of ReadingSet construction (SpecDoc) *)

Constructed == last.op = "construct" /\ last.result = "ok"

\* The identifiers of the records set s holds, in order.
HeldIds(s) == [i \in DOMAIN m_readings[s] |-> heap[m_readings[s][i]].rd.m_id]

MaxOf(ids) == CHOOSE m \in {ids[i] : i \in DOMAIN ids} : \A i \in DOMAIN ids : ids[i] <= m

NonDecreasing(ids) == \A i \in DOMAIN ids : \A k \in DOMAIN ids : i <= k => ids[i] <= ids[k]

AllCarryId(doc) ==
    /\ Located(doc).is_array
    /\ Located(doc).elems # <<>>
    /\ \A i \in DOMAIN Located(doc).elems :
          Located(doc).elems[i].is_object /\ Located(doc).elems[i].j.has_id

\* C1: after a construction that completed without error, the set's count
\* equals the number of records it holds, for every accepted document shape.
C1_CountEqualsRecords ==
    Constructed => m_count[last.a] = Len(m_readings[last.a])

\* C4, as claimed: after construction from a non-empty array of readings that
\* each carry an id, the highest-identifier value equals the highest
\* identifier among the records of the set, whatever the order of the ids.
C4_LastIdIsHighest ==
    (Constructed /\ AllCarryId(last.doc) /\ m_readings[last.a] # <<>>)
        => m_last_id[last.a] = MaxOf(HeldIds(last.a))

\* C4, amended: the highest-identifier value is the identifier of the last
\* record of the array; it is the highest identifier among the records
\* whenever the identifiers come in non-decreasing order.
C4_LastIdIsLastRecord ==
    (Constructed /\ AllCarryId(last.doc) /\ m_readings[last.a] # <<>>)
        => /\ m_last_id[last.a] = HeldIds(last.a)[Len(m_readings[last.a])]
           /\ NonDecreasing(HeldIds(last.a))
                 => m_last_id[last.a] = MaxOf(HeldIds(last.a))

\* C4, witness: a set was built from readings whose ids come in falling order.
C4_IdsOutOfOrder ==
    /\ Constructed /\ AllCarryId(last.doc)
    /\ Len(m_readings[last.a]) >= 2
    /\ HeldIds(last.a)[1] > HeldIds(last.a)[Len(m_readings[last.a])]

\* Building this element throws or aborts, whatever a null dereference does.
ElemFails(e) ==
    \/ ~e.is_object
    \/ \A d \in NullDerefOutcomes : JSONReading(e.j, ndebug, d, 0).status # "ok"

\* The document is one the claim says must be refused.
Refusable(doc) ==
    \/ ~doc.has_rows /\ ~doc.has_readings
    \/ ~Located(doc).is_array
    \/ \E i \in DOMAIN Located(doc).elems : ElemFails(Located(doc).elems[i])

\* The set holds one record per element of the array, each the reading built
\* from the element at its place.
HoldsEveryElement(s, doc) ==
    /\ Len(m_readings[s]) = Len(Located(doc).elems)
    /\ \A i \in DOMAIN m_readings[s] :
          \E d \in NullDerefOutcomes, g \in 0..MaxId :
              heap[m_readings[s][i]].rd = JSONReading(Located(doc).elems[i].j, ndebug, d, g)

ZeroCount(doc) == doc.parses /\ doc.has_rows /\ doc.has_count /\ doc.count = 0

\* C7, as claimed: when the document has neither array, the located value is
\* not an array, or some element fails to build, the construction fails as a
\* whole; no set with a partial list of records is produced.
C7_AllOrNothing ==
    last.op = "construct" =>
        /\ Refusable(last.doc) => state[last.a] # "live"
        /\ state[last.a] = "live" => HoldsEveryElement(last.a, last.doc)

\* C7, amended: the same, except that a document with "rows" and a "count"
\* of zero yields an empty set without its array being looked at.
C7_AllOrNothingButZeroCount ==
    last.op = "construct" =>
        /\ (Refusable(last.doc) /\ ~ZeroCount(last.doc)) => state[last.a] # "live"
        /\ ZeroCount(last.doc) => (state[last.a] = "live" /\ m_readings[last.a] = <<>>)
        /\ (state[last.a] = "live" /\ ~ZeroCount(last.doc))
              => HoldsEveryElement(last.a, last.doc)

\* C7, witness: the constructor threw at the second element, after the first
\* had been built.
C7_FailsAfterBuiltRows ==
    /\ last.op = "construct" /\ last.result = "error"
    /\ state[last.a] = "failed"
    /\ Located(last.doc).is_array
    /\ Len(Located(last.doc).elems) >= 2
    /\ ~ElemFails(Located(last.doc).elems[1])
    /\ ElemFails(Located(last.doc).elems[2])
    /\ Len(heap) = 1

-----------------------------------------------------------------------------
(* Properties of append, clear, removeAll and destruction (SpecSet) *)

Live(s) == state[s] = "live"

\* The places where a live set holds record r.
Holders(r) ==
    {p \in UNION {{<<s, i>> : i \in DOMAIN m_readings[s]} : s \in Sets} :
        Live(p[1]) /\ m_readings[p[1]][p[2]] = r}

\* C2: after A.append(B) for distinct sets, B holds no record, A's count has
\* grown by B's original count, and A's records are its original records
\* followed by B's original records, both in their original order.
C2_AppendMovesAll ==
    [][\A a \in Sets, b \in Sets :
          (a # b /\ AppendSet(a, b))
              => /\ m_readings'[b] = <<>>
                 /\ m_count'[a] = m_count[a] + m_count[b]
                 /\ m_readings'[a] = m_readings[a] \o m_readings[b]]_vars

\* C3: every Reading is held by at most one set at a time and is released at
\* most once; a record some set still holds has not been released, so
\* destroying the source of an append releases none of the moved records.
C3_ExclusiveOwnership ==
    \A r \in DOMAIN heap :
        /\ heap[r].freed <= 1
        /\ Cardinality(Holders(r)) <= 1
        /\ Holders(r) # {} => heap[r].freed = 0

\* C3, witness: a set was destroyed while another set holds, unreleased, a
\* record the destroyed set had built and handed over by append.
C3_SourceDestroyedAfterAppend ==
    \E r \in DOMAIN heap :
        /\ state[heap[r].maker] = "destroyed"
        /\ Holders(r) # {}
        /\ heap[r].freed = 0

\* C10: append, clear and removeAll keep each set's count equal to the
\* number of records it holds.
C10_CountFollowsRecords ==
    [][(/\ \/ \E a \in Sets, b \in Sets : a # b /\ AppendSet(a, b)
           \/ \E s \in Sets : Clear(s) \/ RemoveAll(s)
        /\ \A s \in Sets : Live(s) => m_count[s] = Len(m_readings[s]))
          => \A s \in Sets : Live(s) => m_count'[s] = Len(m_readings'[s])]_vars

-----------------------------------------------------------------------------
(* Properties of convert_timestamp (SpecTs) *)

\* The first six digits of the fraction, zeros standing in for missing ones.
SixDigits(frac) == SubSeq(frac \o <<0, 0, 0, 0, 0, 0>>, 1, 6)

\* C5: the microseconds lie in 0..999999: 0 without a fractional part, else
\* the first six digits of the fraction, right-padded with zeros.
C5_MicrosecondsNormalised ==
    ts_pc = "done" =>
        /\ tv_usec \in 0..999999
        /\ tv_usec = IF str.dot /\ str.frac # <<>> THEN atol(SixDigits(str.frac)) ELSE 0

-----------------------------------------------------------------------------
(* Properties of JSONReading (SpecReading) *)

Done == rd_pc = "done"

Shortcut == json.has_value /\ json.value.t = "number"

IntLiteral(v) == v.t = "number" /\ v.n.k = "int"

RECURSIVE EscapedOnce(_)
\* Each backslash and each double quote of s preceded by one backslash.
EscapedOnce(s) ==
    IF s = <<>> THEN <<>>
    ELSE (IF Head(s) \in {"\\", "\""} THEN <<"\\", Head(s)>> ELSE <<Head(s)>>)
         \o EscapedOnce(Tail(s))

\* The value the quarantined datapoint is to hold for the scalar rd.
QuarantinedValueOk(rd, dv) ==
    IF rd.t = "string" THEN dv = DpvString(EscapedOnce(rd.s))
    ELSE IF rd.n.k = "int" THEN dv = DpvLong(rd.n.limbs)
    ELSE IF rd.n.k = "double" THEN dv = DpvDouble(rd.n.d)
    ELSE dv.tag \in {"int", "float"}

\* C6: a reading object with no numeric "value" whose "reading" is a string
\* or a number raises no error; the record's asset name is the sentinel, "_"
\* and the original name, and it holds one datapoint, named with the original
\* name, whose value is the string escaped once or the number.
C6_QuarantineKeepsScalar ==
    (Done /\ ~Shortcut /\ json.has_reading /\ json.reading.t \in {"string", "number"})
        => /\ reading.status = "ok"
           /\ reading.m_asset = "error_invalid_reading_" \o json.asset_code
           /\ Len(reading.datapoints) = 1
           /\ reading.datapoints[1].name = json.asset_code
           /\ QuarantinedValueOk(json.reading, reading.datapoints[1].val)

RECURSIVE Sound(_)
\* No value is what a null pointer left, and no list or object is empty.
Sound(dv) ==
    /\ dv.tag \notin {"NULL", "garbage"}
    /\ dv.tag \in {"list", "dict"} =>
          /\ dv.kids # <<>>
          /\ \A i \in DOMAIN dv.kids : Sound(dv.kids[i].val)

\* C8: no list or object value the builder produces is empty; an array
\* element for which createDictDPV yields no value is never used as a value,
\* and an array member that ends with no elements is refused.
C8_NoEmptyNestedValue ==
    Done =>
        /\ reading.status # "crash"
        /\ \A i \in DOMAIN reading.datapoints : Sound(reading.datapoints[i].val)
        /\ (/\ ~Shortcut /\ json.has_reading /\ json.reading.t = "object"
            /\ json.reading.m # <<>>
            /\ json.reading.m[1].val = JArr(<<>>))
              => reading.status = "error"

\* The members of an object are all integer literals of the signed range.
AllIntLiterals(obj) ==
    /\ obj.t = "object" /\ obj.m # <<>>
    /\ \A i \in DOMAIN obj.m : IntLiteral(obj.m[i].val)

LongsOf(obj) == [i \in DOMAIN obj.m |-> Datapoint(obj.m[i].name, DpvLong(obj.m[i].val.n.limbs))]

\* "reading" is {"x": [o1, ...]} where every o is an object of integers.
ArrayOfIntObjects(rd) ==
    /\ rd.t = "object" /\ Len(rd.m) = 1
    /\ rd.m[1].val.t = "array" /\ rd.m[1].val.m # <<>>
    /\ \A e \in DOMAIN rd.m[1].val.m : AllIntLiterals(rd.m[1].val.m[e].val)

\* C9: an integer literal of the signed 64-bit range yields an integer
\* datapoint holding exactly that number, at each of the four places where
\* numbers are dispatched.
C9_IntegerLiteralKept ==
    Done =>
        /\ (json.has_value /\ IntLiteral(json.value))
              => /\ reading.status = "ok"
                 /\ reading.datapoints = <<Datapoint("value", DpvLong(json.value.n.limbs))>>
        /\ (~Shortcut /\ json.has_reading /\ AllIntLiterals(json.reading))
              => /\ reading.status = "ok"
                 /\ reading.datapoints = LongsOf(json.reading)
        /\ (~Shortcut /\ json.has_reading /\ IntLiteral(json.reading))
              => /\ reading.status = "ok"
                 /\ reading.datapoints =
                        <<Datapoint(json.asset_code, DpvLong(json.reading.n.limbs))>>
        /\ (~Shortcut /\ json.has_reading /\ ArrayOfIntObjects(json.reading))
              => /\ reading.status = "ok"
                 /\ Len(reading.datapoints) = 1
                 /\ \A e \in DOMAIN json.reading.m[1].val.m :
                       reading.datapoints[1].val.kids[e].val.kids
                           = LongsOf(json.reading.m[1].val.m[e].val)

=============================================================================
